---- MODULE Spec2Model ----
(***************************************************************************)
(* Fruit Catcher: the GameEngine of gameEngine.js (src/unnamed/part_000)   *)
(* and the driver of src/js/main.js.                                       *)
(*                                                                         *)
(* Time is kept in milliseconds.  elapsedMs stands for                     *)
(* Date.now() - this.startTime at the last frame; start() sets it to 0     *)
(* (startTime = Date.now()).  Every frame of an active round lasts frameMs *)
(* milliseconds, a property of the device that is fixed in Init.  update()  *)
(* of an inactive round returns before it reads the clock, so elapsedMs    *)
(* keeps the value of the last read.                                       *)
(* Math.random() is a choice of a lane in Lanes and of a roll in Rolls     *)
(* (tenths: roll 9 stands for typeRoll = 0.9).                             *)
(* The field x of an item is lanes[lane], it is only read by render().     *)
(***************************************************************************)
EXTENDS Integers, Sequences, FiniteSets, TLC

VARIABLES score, level, timeLimit, isGameActive, basketPosition, items,
          spawnTimer, started, elapsedMs, onGameEnd, frameMs, ev

vars == <<score, level, timeLimit, isGameActive, basketPosition, items,
          spawnTimer, started, elapsedMs, onGameEnd, frameMs, ev>>

(* ---------------- bounds of the model ---------------- *)
\* frames of one round that the model follows
MaxTicks == 200

(* ---------------- inputs ---------------- *)
\* 100 ms and 500 ms frames, and a device that stalls 20 s per frame
FramePeriods == {100, 500, 20000}
\* Math.floor(Math.random() * 3)
Lanes == {0, 1, 2}
\* Math.random() in tenths: a roll below every threshold and one above
Rolls == {5, 9}
\* the pose names of onPoseDetected (left, center, right in the source's
\* language) and one name that is none of them
Labels == {"left", "center", "right", "other"}
\* start(config): config.timeLimit missing, NaN, or a number
Configs == {[kind |-> "missing", v |-> 0], [kind |-> "nan", v |-> 0],
            [kind |-> "number", v |-> 0], [kind |-> "number", v |-> -1],
            [kind |-> "number", v |-> 5]}

(* ---------------- pure helpers ---------------- *)
Max(a, b) == IF a >= b THEN a ELSE b

\* config.timeLimit || 60 : undefined, NaN and 0 are falsy
TimeLimitOf(cfg) ==
  IF cfg.kind = "number" /\ cfg.v # 0 THEN cfg.v ELSE 60

\* LevelOf with the thresholds taken one tick late (<= for <)
LevelOfInclusive(ms) ==
  IF ms <= 20000 THEN 1 ELSE IF ms <= 40000 THEN 2 ELSE 3

\* level thresholds on elapsed seconds (elapsed = ms / 1000)
LevelOf(ms) ==
  IF ms < 20000 THEN 1 ELSE IF ms < 40000 THEN 2 ELSE 3

\* TimedOut with remaining < 0 for remaining <= 0
TimedOutStrict(limit, ms) == limit * 1000 - ms < 0

\* remaining = timeLimit - elapsed ; remaining <= 0
TimedOut(limit, ms) == limit * 1000 - ms <= 0

SpawnInterval(lv) == Max(20, 60 - (lv * 10))

Speed(lv) == 3 + (lv * 2)

\* ItemType with the Bomb already at a roll of 0.8
ItemTypeInclusive(lv, roll) ==
  IF lv >= 2 /\ roll >= 8 THEN "bomb"
  ELSE IF roll > 6 THEN "grape" ELSE "apple"

ItemType(lv, roll) ==
  IF lv >= 2 /\ roll > 8 THEN "bomb"
  ELSE IF roll > 6 THEN "grape"
  ELSE "apple"

\* InCatchBand with the lower edge included
InCatchBandClosed(y) == y >= 500 /\ y < 560

\* InCatchBand with the band starting at 200
InCatchBandTall(y) == y > 200 /\ y < 560

InCatchBand(y) == y > 500 /\ y < 560

\* OffScreen with the edge included
OffScreenAt650(y) == y >= 650

OffScreen(y) == y > 650

NewItem(lane, lv, roll) ==
  [lane |-> lane, y |-> -50, type |-> ItemType(lv, roll), active |-> TRUE]

\* stop(): isGameActive = false; the callback, when set, gets (score, level)
StopCalls(cb, sc, lv) == IF cb THEN << <<sc, lv>> >> ELSE << >>

\* HandleCollision with a Grape worth as much as an Apple
HandleCollisionFlat(st, it) ==
  IF it.type = "bomb"
  THEN [st EXCEPT !.active = FALSE,
                  !.calls = st.calls \o StopCalls(st.cb, st.score, st.level)]
  ELSE [st EXCEPT !.score = st.score + 100]

\* HandleCollision with a Bomb that clears isGameActive without stop()
HandleCollisionSilentBomb(st, it) ==
  IF it.type = "bomb"
  THEN [st EXCEPT !.active = FALSE]
  ELSE [st EXCEPT !.score = st.score
                     + (IF it.type = "apple" THEN 100 ELSE 0)
                     + (IF it.type = "grape" THEN 200 ELSE 0)]

\* HandleCollision with a Bomb that also costs 100 points
HandleCollisionBombPenalty(st, it) ==
  IF it.type = "bomb"
  THEN [st EXCEPT !.active = FALSE,
                  !.score = st.score - 100,
                  !.calls = st.calls
                              \o StopCalls(st.cb, st.score - 100, st.level)]
  ELSE [st EXCEPT !.score = st.score
                     + (IF it.type = "apple" THEN 100 ELSE 0)
                     + (IF it.type = "grape" THEN 200 ELSE 0)]

\* HandleCollision with every item but the Apple ending the round
HandleCollisionGrapeEnds(st, it) ==
  IF it.type # "apple"
  THEN [st EXCEPT !.active = FALSE,
                  !.calls = st.calls \o StopCalls(st.cb, st.score, st.level)]
  ELSE [st EXCEPT !.score = st.score + 100]

\* handleCollision(item) on the running tick state st
HandleCollision(st, it) ==
  IF it.type = "bomb"
  THEN [st EXCEPT !.active = FALSE,
                  !.calls = st.calls \o StopCalls(st.cb, st.score, st.level)]
  ELSE [st EXCEPT !.score = st.score
                     + (IF it.type = "apple" THEN 100 ELSE 0)
                     + (IF it.type = "grape" THEN 200 ELSE 0)]

\* the for loop of updateItems() from index i on; s is the value of st,
\* bound once for the pass over item i
RECURSIVE ItemLoop(_, _)
ItemLoop(st, i) ==
  CHOOSE r \in
    { IF i > Len(s.items) THEN s
      ELSE
        LET it0   == s.items[i]
            moved == [it0 EXCEPT !.y = it0.y + Speed(s.level)]
            hit   == InCatchBand(moved.y) /\ moved.lane = s.basket
            st1   == IF hit
                     THEN [HandleCollision(s, moved)
                             EXCEPT !.hits = s.hits \o <<moved>>]
                     ELSE s
            it1   == IF hit THEN [moved EXCEPT !.active = FALSE] ELSE moved
            it2   == IF OffScreen(it1.y) THEN [it1 EXCEPT !.active = FALSE]
                     ELSE it1
        IN  IF ~it0.active THEN ItemLoop(s, i + 1)
            ELSE ItemLoop([st1 EXCEPT !.items[i] = it2], i + 1)
      : s \in {st} } : TRUE

IsActiveItem(it) == it.active

UpdateItems(st) ==
  LET r == ItemLoop(st, 1)
  IN  [r EXCEPT !.items = SelectSeq(r.items, IsActiveItem)]

(* ---------------- state ---------------- *)
\* ev records what the last operation did: the observer calls it made
\* (score, level), the items whose collision it resolved, and, for start(),
\* the round it replaced; for render(), the remaining time it draws
\* (nan: Date.now() - undefined before the first start())
NoEv == [op |-> "init", calls |-> << >>, hits |-> << >>,
         pre |-> [active |-> FALSE, score |-> 0, n |-> 0],
         out |-> [nan |-> FALSE, v |-> 0]]

Pre == [active |-> isGameActive, score |-> score, n |-> Len(items)]

Init ==
  /\ score = 0
  /\ level = 1
  /\ timeLimit = 60
  /\ isGameActive = FALSE
  /\ basketPosition = 1
  /\ items = << >>
  /\ spawnTimer = 0
  /\ started = FALSE
  /\ elapsedMs = 0
  /\ onGameEnd = FALSE
  /\ frameMs \in FramePeriods
  /\ ev = NoEv

(* ---------------- operations ---------------- *)
SetGameEndCallback ==
  /\ ~onGameEnd
  /\ onGameEnd' = TRUE
  /\ ev' = [NoEv EXCEPT !.op = "setCallback"]
  /\ UNCHANGED <<score, level, timeLimit, isGameActive, basketPosition,
                 items, spawnTimer, started, elapsedMs, frameMs>>

\* Start without this.items = []
StartKeepsItems(cfg) ==
  /\ isGameActive' = TRUE
  /\ score' = 0
  /\ level' = 1
  /\ timeLimit' = TimeLimitOf(cfg)
  /\ basketPosition' = 1
  /\ spawnTimer' = 0
  /\ started' = TRUE
  /\ elapsedMs' = 0
  /\ ev' = [NoEv EXCEPT !.op = "start", !.pre = Pre]
  /\ UNCHANGED <<items, onGameEnd, frameMs>>

Start(cfg) ==
  /\ isGameActive' = TRUE
  /\ score' = 0
  /\ level' = 1
  /\ timeLimit' = TimeLimitOf(cfg)
  /\ items' = << >>
  /\ basketPosition' = 1
  /\ spawnTimer' = 0
  /\ started' = TRUE
  /\ elapsedMs' = 0
  /\ ev' = [NoEv EXCEPT !.op = "start", !.pre = Pre]
  /\ UNCHANGED <<onGameEnd, frameMs>>

Stop ==
  /\ isGameActive' = FALSE
  /\ ev' = [NoEv EXCEPT !.op = "stop",
                        !.calls = StopCalls(onGameEnd, score, level)]
  /\ UNCHANGED <<score, level, timeLimit, basketPosition, items, spawnTimer,
                 started, elapsedMs, onGameEnd, frameMs>>

LaneOf(label) ==
  CASE label = "left" -> 0
    [] label = "center" -> 1
    [] label = "right" -> 2

\* OnPoseDetected without the return of an inactive round
OnPoseDetectedAlways(label) ==
  /\ basketPosition' =
       IF label \in {"left", "center", "right"} THEN LaneOf(label)
       ELSE basketPosition
  /\ ev' = [NoEv EXCEPT !.op = "gesture"]
  /\ UNCHANGED <<score, level, timeLimit, isGameActive, items, spawnTimer,
                 started, elapsedMs, onGameEnd, frameMs>>

OnPoseDetected(label) ==
  /\ basketPosition' =
       IF ~isGameActive THEN basketPosition
       ELSE IF label \in {"left", "center", "right"} THEN LaneOf(label)
       ELSE basketPosition
  /\ ev' = [NoEv EXCEPT !.op = "gesture"]
  /\ UNCHANGED <<score, level, timeLimit, isGameActive, items, spawnTimer,
                 started, elapsedMs, onGameEnd, frameMs>>

\* UpdateInactive with the clock read and the level set before the
\* activity test
UpdateInactiveTracksLevel ==
  LET e == elapsedMs + frameMs IN
  /\ ~isGameActive
  /\ started
  /\ e <= MaxTicks * frameMs
  /\ elapsedMs' = e
  /\ level' = LevelOf(e)
  /\ ev' = [NoEv EXCEPT !.op = "tick", !.pre = Pre]
  /\ UNCHANGED <<score, timeLimit, isGameActive, basketPosition, items,
                 spawnTimer, started, onGameEnd, frameMs>>

\* update() while the round is not active: returns at once
UpdateInactive ==
  /\ ~isGameActive
  /\ ev' = [NoEv EXCEPT !.op = "tick", !.pre = Pre]
  /\ UNCHANGED <<score, level, timeLimit, isGameActive, basketPosition,
                 items, spawnTimer, started, elapsedMs, onGameEnd, frameMs>>

\* UpdateTimeout with the time check placed before the level update
UpdateTimeoutStaleLevel ==
  LET e == elapsedMs + frameMs IN
  /\ isGameActive
  /\ TimedOut(timeLimit, e)
  /\ elapsedMs' = e
  /\ isGameActive' = FALSE
  /\ ev' = [NoEv EXCEPT !.op = "tick", !.pre = Pre,
                        !.calls = StopCalls(onGameEnd, score, level)]
  /\ UNCHANGED <<score, level, timeLimit, basketPosition, items, spawnTimer,
                 started, onGameEnd, frameMs>>

\* UpdateTimeout that reports the end of the round without stop()
UpdateTimeoutNotifiesOnly ==
  LET e == elapsedMs + frameMs IN
  /\ isGameActive
  /\ TimedOut(timeLimit, e)
  /\ e <= MaxTicks * frameMs
  /\ elapsedMs' = e
  /\ level' = LevelOf(e)
  /\ ev' = [NoEv EXCEPT !.op = "tick", !.pre = Pre,
                        !.calls = IF onGameEnd
                                  THEN << <<score, LevelOf(e)>> >>
                                  ELSE << >>]
  /\ UNCHANGED <<score, timeLimit, isGameActive, basketPosition, items,
                 spawnTimer, started, onGameEnd, frameMs>>

\* update() that finds remaining <= 0: the level is set, then stop()
UpdateTimeout ==
  LET e == elapsedMs + frameMs IN
  /\ isGameActive
  /\ TimedOut(timeLimit, e)
  /\ elapsedMs' = e
  /\ level' = LevelOf(e)
  /\ isGameActive' = FALSE
  /\ ev' = [NoEv EXCEPT !.op = "tick", !.pre = Pre,
                        !.calls = StopCalls(onGameEnd, score, LevelOf(e))]
  /\ UNCHANGED <<score, timeLimit, basketPosition, items, spawnTimer,
                 started, onGameEnd, frameMs>>

\* the rest of update() once the spawn step left the items its and the
\* timer at timer: updateItems()
UpdateRest(e, its, timer) ==
  LET st == UpdateItems([items |-> its, score |-> score,
                         level |-> LevelOf(e), basket |-> basketPosition,
                         active |-> TRUE, cb |-> onGameEnd,
                         calls |-> << >>, hits |-> << >>])
  IN
  /\ e <= MaxTicks * frameMs
  /\ elapsedMs' = e
  /\ level' = LevelOf(e)
  /\ spawnTimer' = timer
  /\ items' = st.items
  /\ score' = st.score
  /\ isGameActive' = st.active
  /\ ev' = [NoEv EXCEPT !.op = "tick", !.pre = Pre, !.calls = st.calls,
                        !.hits = st.hits]
  /\ UNCHANGED <<timeLimit, basketPosition, started, onGameEnd, frameMs>>

\* SpawnDue with the spawn already at the interval
SpawnDueAtInterval(timer, lv) == timer >= SpawnInterval(lv)

\* if (this.spawnTimer > spawnInterval)
SpawnDue(timer, lv) == timer > SpawnInterval(lv)

\* update() of a running round in a frame without a spawn
UpdateNoSpawn ==
  LET e == elapsedMs + frameMs IN
  /\ isGameActive
  /\ ~TimedOut(timeLimit, e)
  /\ ~SpawnDue(spawnTimer + 1, LevelOf(e))
  /\ UpdateRest(e, items, spawnTimer + 1)

\* update() of a running round in a frame that calls spawnItem()
UpdateSpawn(lane, roll) ==
  LET e == elapsedMs + frameMs IN
  /\ isGameActive
  /\ ~TimedOut(timeLimit, e)
  /\ SpawnDue(spawnTimer + 1, LevelOf(e))
  /\ UpdateRest(e, Append(items, NewItem(lane, LevelOf(e), roll)), 0)

Update ==
  \/ UpdateInactive
  \/ UpdateTimeout
  \/ UpdateNoSpawn
  \/ \E lane \in Lanes, roll \in Rolls : UpdateSpawn(lane, roll)

\* RemainingOf with the difference floored instead of the elapsed time
RemainingOfFlooredDifference(limit, ms) == Max(0, limit * 1000 - ms) \div 1000

\* render(): elapsed = Math.floor(ms / 1000);
\* remaining = Math.max(0, timeLimit - elapsed)
RemainingOf(limit, ms) == Max(0, limit - (ms \div 1000))

\* render(ctx) in the frame of the last clock read: it only draws
Render ==
  /\ ev' = [NoEv EXCEPT !.op = "render",
                        !.out = IF started
                                THEN [nan |-> FALSE,
                                      v |-> RemainingOf(timeLimit, elapsedMs)]
                                ELSE [nan |-> TRUE, v |-> 0]]
  /\ UNCHANGED <<score, level, timeLimit, isGameActive, basketPosition,
                 items, spawnTimer, started, elapsedMs, onGameEnd, frameMs>>

Next ==
  \/ SetGameEndCallback
  \/ (onGameEnd /\ \E cfg \in Configs : Start(cfg))
  \/ Stop
  \/ \E label \in Labels : OnPoseDetected(label)
  \/ Update

Spec == Init /\ [][Next]_vars

\* the engine with render() among its operations
NextRender ==
  \/ Next
  \/ Render

SpecRender == Init /\ [][NextRender]_vars

\* start configurations of rounds of 60 s (the default) and of 40 s, a
\* limit that falls on a level threshold
SpawnConfigs == {[kind |-> "missing", v |-> 0], [kind |-> "number", v |-> 40]}

NextSpawn ==
  \/ SetGameEndCallback
  \/ (onGameEnd /\ \E cfg \in SpawnConfigs : Start(cfg))
  \/ Stop
  \/ \E label \in Labels : OnPoseDetected(label)
  \/ Update

SpecSpawn == Init /\ [][NextSpawn]_vars

\* Math.random() in tenths: every value of typeRoll from 0.0 to 0.9
AllRolls == 0 .. 9

NextRolls ==
  \/ SetGameEndCallback
  \/ (onGameEnd /\ \E cfg \in Configs : Start(cfg))
  \/ Stop
  \/ \E label \in Labels : OnPoseDetected(label)
  \/ UpdateInactive
  \/ UpdateTimeout
  \/ UpdateNoSpawn
  \/ \E lane \in Lanes, roll \in AllRolls : UpdateSpawn(lane, roll)

SpecRolls == Init /\ [][NextRolls]_vars

\* the frame periods at which every round of 60 s reaches its limit within
\* MaxTicks frames
LiveFramePeriods == {500, 20000}

InitLive == Init /\ frameMs \in LiveFramePeriods

\* the frame loop keeps calling update()
SpecLive == InitLive /\ [][Next]_vars /\ WF_vars(Update)

(* ---------------- the driver of main.js ---------------- *)
\* startGameMode({timeLimit: 60}) at the end of init(), on a new
\* GameEngine: the callback is set, then start(config). The start button
\* is enabled only before init() and after stop(), when no round is active.
StartGameMode ==
  /\ ~isGameActive
  /\ onGameEnd' = TRUE
  /\ isGameActive' = TRUE
  /\ score' = 0
  /\ level' = 1
  /\ timeLimit' = TimeLimitOf([kind |-> "number", v |-> 60])
  /\ items' = << >>
  /\ basketPosition' = 1
  /\ spawnTimer' = 0
  /\ started' = TRUE
  /\ elapsedMs' = 0
  /\ ev' = [NoEv EXCEPT !.op = "start", !.pre = Pre]
  /\ UNCHANGED frameMs

\* DriverStop without the test of gameEngine.isGameActive
DriverStopAlways == Stop

\* stop() of main.js: if (gameEngine && gameEngine.isGameActive)
\* gameEngine.stop()
DriverStop == isGameActive /\ Stop

\* handlePrediction(): the stabilized class name goes to onPoseDetected()
\* only while the round is active
DriverPrediction ==
  /\ isGameActive
  /\ \E label \in Labels : OnPoseDetected(label)

\* drawPose(): update() (and render(), which only draws) run only while
\* the round is active
DriverFrame ==
  /\ isGameActive
  /\ \/ UpdateTimeout
     \/ UpdateNoSpawn
     \/ \E lane \in Lanes, roll \in Rolls : UpdateSpawn(lane, roll)

NextDriver ==
  \/ StartGameMode
  \/ DriverStop
  \/ DriverPrediction
  \/ DriverFrame

SpecDriver == Init /\ [][NextDriver]_vars

(* ======================================================================= *)
(* The claims                                                              *)
(* ======================================================================= *)

\* the level the specification assigns to an elapsed time
ClaimedLevel(ms) ==
  IF ms < 20 * 1000 THEN 1 ELSE IF ms < 40 * 1000 THEN 2 ELSE 3

HasBomb(hits) == \E k \in DOMAIN hits : hits[k].type = "bomb"

\* the last operation was a tick of a running round
ActiveTick == ev.op = "tick" /\ ev.pre.active

\* ... that did not time out, so that updateItems() ran
RunningTick == ActiveTick /\ elapsedMs < timeLimit * 1000

(* ---------------- C1 ---------------- *)
\* C1: with an observer registered, every step invokes the observer once
\* when it takes active from true to false and not at all otherwise; in
\* particular a stop() of an inactive round does not invoke it.
C1_ObserverOncePerTransition ==
  [][onGameEnd =>
       Len(ev'.calls) = IF isGameActive /\ ~isGameActive' THEN 1 ELSE 0]_vars

(* ---------------- C2 ---------------- *)
\* C2: after start() score = 0, level = 1, items is empty, basketLane = 1,
\* spawnTimer = 0, active holds and the round start is the current time,
\* whatever the state before.
C2_StartResets ==
  ev.op = "start" =>
    /\ score = 0
    /\ level = 1
    /\ items = << >>
    /\ basketPosition = 1
    /\ spawnTimer = 0
    /\ isGameActive
    /\ started
    /\ elapsedMs = 0

\* start() called in the middle of a round that had items and points
C2_StartMidRound ==
  /\ ev.op = "start"
  /\ ev.pre.active
  /\ ev.pre.score > 0
  /\ ev.pre.n > 0

(* ---------------- C3 ---------------- *)
ClaimedLane(label, old) ==
  IF label = "left" THEN 0
  ELSE IF label = "center" THEN 1
  ELSE IF label = "right" THEN 2
  ELSE old

\* C3: a gesture sets basketLane to 0/1/2 for left/center/right when the
\* round is active, leaves it alone when the round is inactive or the label
\* is none of the three, never changes score, level, items, spawnTimer or
\* active, and basketLane is always one of 0, 1, 2.
C3_GestureSetsLane ==
  /\ [](basketPosition \in {0, 1, 2})
  /\ [][\A label \in Labels :
          OnPoseDetected(label) =>
            /\ basketPosition' =
                 IF isGameActive THEN ClaimedLane(label, basketPosition)
                 ELSE basketPosition
            /\ UNCHANGED <<score, level, items, spawnTimer, isGameActive>>
       ]_vars

\* a gesture moved the basket to the left lane while items were falling
C3_GestureMidRound ==
  /\ ev.op = "gesture"
  /\ isGameActive
  /\ basketPosition = 0
  /\ Len(items) > 0

(* ---------------- C4 ---------------- *)
\* C4: after a tick of an active round, level is the threshold function of
\* the elapsed time read in that tick: 1 below 20 s, 2 from 20 s and below
\* 40 s, 3 from 40 s on.
C4_LevelIsThreshold ==
  ActiveTick => level = ClaimedLevel(elapsedMs)

\* a tick read exactly 20 s while an item of level 1 was falling
C4_TickAtTwentySeconds ==
  /\ ActiveTick
  /\ elapsedMs = 20000
  /\ level = 2
  /\ Len(items) > 0

(* ---------------- C5 ---------------- *)
\* C5: a tick of an active round that reads elapsed >= timeLimit (equality
\* included) stops the round and does nothing else: spawnTimer, items and
\* score keep their values and no collision is resolved.
C5_TimeoutTickOnlyStops ==
  [][(isGameActive /\ ev'.op = "tick" /\ elapsedMs' >= timeLimit * 1000) =>
       /\ ~isGameActive'
       /\ Len(ev'.calls) = 1
       /\ ev'.hits = << >>
       /\ spawnTimer' = spawnTimer
       /\ items' = items
       /\ score' = score
    ]_vars

\* a tick timed out at exactly the limit with items falling
C5_TimeoutAtLimit ==
  /\ ActiveTick
  /\ ~isGameActive
  /\ elapsedMs = timeLimit * 1000
  /\ Len(items) > 0
  /\ spawnTimer > 0

(* ---------------- C6 ---------------- *)
\* C6: a tick that times out hands the observer the score and the level of
\* the elapsed time of that very tick, (0, 3) for a limit of 60 s without
\* a catch; a tick that reads less than the limit invokes the observer
\* only for a bomb.
C6_TimeoutReport ==
  ActiveTick =>
    IF elapsedMs >= timeLimit * 1000
    THEN /\ ev.calls = << <<score, ClaimedLevel(elapsedMs)>> >>
         /\ (timeLimit = 60 /\ score = 0 => ev.calls = << <<0, 3>> >>)
    ELSE ev.calls # << >> => HasBomb(ev.hits)

\* the 60 s round of the scenario timed out without a catch
C6_SixtySecondsTimeout ==
  /\ ActiveTick
  /\ timeLimit = 60
  /\ elapsedMs >= 60000
  /\ ev.calls = << <<0, 3>> >>

(* ---------------- C7 ---------------- *)
ClaimedPoints(type) ==
  IF type = "apple" THEN 100 ELSE IF type = "grape" THEN 200 ELSE 0

\* C7: a tick that resolves a collision with an Apple adds exactly 100 to
\* score, with a Grape exactly 200; the round stays active and the item is
\* no longer in the collection after the tick.
C7_FruitCollision ==
  ev.op = "tick" =>
    \A k \in DOMAIN ev.hits :
      ev.hits[k].type \in {"apple", "grape"} =>
        /\ score = ev.pre.score + ClaimedPoints(ev.hits[k].type)
        /\ isGameActive
        /\ \A i \in DOMAIN items :
             /\ items[i].active
             /\ ~(items[i].lane = ev.hits[k].lane /\ items[i].y = ev.hits[k].y)

\* a Grape was caught while other items were falling
C7_GrapeCaught ==
  /\ ev.op = "tick"
  /\ Len(ev.hits) = 1
  /\ ev.hits[1].type = "grape"
  /\ score = 200
  /\ Len(items) > 0

(* ---------------- C8 ---------------- *)
\* C8: a tick that resolves a collision with a Bomb ends the round and
\* invokes the observer exactly once, with the score held before the tick
\* and the level of the tick; the score after the tick is that score.
C8_BombCollision ==
  (ev.op = "tick" /\ HasBomb(ev.hits)) =>
    /\ ~isGameActive
    /\ ev.calls = << <<ev.pre.score, ClaimedLevel(elapsedMs)>> >>
    /\ level = ClaimedLevel(elapsedMs)
    /\ score = ev.pre.score

\* a Bomb was caught
C8_BombCaught ==
  /\ ev.op = "tick"
  /\ ev.pre.active
  /\ Len(ev.hits) = 1
  /\ ev.hits[1].type = "bomb"
  /\ ev.hits[1].lane = basketPosition

(* ---------------- C9 ---------------- *)
\* C9 as stated: after a tick that advanced the items, the collisions it
\* resolved are exactly those of the items in [500,560) in the basket's lane.
C9_BandClosedAt500 ==
  RunningTick =>
    /\ \A k \in DOMAIN ev.hits :
         /\ ev.hits[k].y >= 500 /\ ev.hits[k].y < 560
         /\ ev.hits[k].lane = basketPosition
    /\ \A i \in DOMAIN items :
         ~(items[i].y >= 500 /\ items[i].y < 560
           /\ items[i].lane = basketPosition)

\* C9 as amended: after a tick that advanced the items, the collisions it
\* resolved are exactly those of the items whose position is above 500 and
\* below 560 (both excluded) in the basket's lane.
C9_BandOpen ==
  RunningTick =>
    /\ \A k \in DOMAIN ev.hits :
         /\ ev.hits[k].y > 500 /\ ev.hits[k].y < 560
         /\ ev.hits[k].lane = basketPosition
    /\ \A i \in DOMAIN items :
         ~(items[i].y > 500 /\ items[i].y < 560
           /\ items[i].lane = basketPosition)

\* an item was advanced to exactly 500 in the basket's lane and stayed
C9_ItemAt500 ==
  /\ RunningTick
  /\ ev.hits = << >>
  /\ \E i \in DOMAIN items :
       items[i].y = 500 /\ items[i].lane = basketPosition

(* ---------------- C10 ---------------- *)
\* C10: in a tick that advances the items, every item that is not collided
\* with stays in the collection when its new position is at most 650 and
\* is gone when it is above 650; a tick without a collision changes
\* neither score nor active.
C10_MissedItems ==
  [][(isGameActive /\ ev'.op = "tick" /\ elapsedMs' < timeLimit * 1000) =>
       /\ \A j \in DOMAIN items' : items'[j].y <= 650
       /\ \A i \in DOMAIN items :
            LET y2 == items[i].y + 3 + (2 * level')
                m  == [items[i] EXCEPT !.y = y2]
            IN  (y2 <= 650 /\ ~(\E k \in DOMAIN ev'.hits : ev'.hits[k] = m))
                   => \E j \in DOMAIN items' : items'[j] = m
       /\ ev'.hits = << >> => (score' = score /\ isGameActive')
    ]_vars

\* an item left the field in a tick without a collision
C10_ItemMissed ==
  /\ RunningTick
  /\ ev.hits = << >>
  /\ Len(items) < ev.pre.n
  /\ isGameActive
  /\ score = ev.pre.score

(* ---------------- C11 ---------------- *)
\* C11: score is always a non-negative multiple of 100; within a round
\* (every step but start()) it never decreases, and it changes only in a
\* tick of a running round that resolves one Apple (+100) or Grape (+200)
\* collision: gestures, stop(), render(), timeout ticks, bomb ticks, ticks
\* without a collision and every step of an inactive round leave it alone.
C11_ScoreOnlyByFruit ==
  /\ [](score >= 0 /\ score % 100 = 0)
  /\ [][ev'.op # "start" =>
          /\ score' >= score
          /\ score' # score =>
               /\ isGameActive
               /\ ev'.op = "tick"
               /\ elapsedMs' < timeLimit * 1000
               /\ Len(ev'.hits) = 1
               /\ ev'.hits[1].type \in {"apple", "grape"}
               /\ score' = score + ClaimedPoints(ev'.hits[1].type)
       ]_vars

\* an Apple was caught and render() drew the frame with the new score
C11_ScoreRendered ==
  /\ ev.op = "render"
  /\ isGameActive
  /\ score = 100
  /\ Len(items) > 0

(* ---------------- C12 ---------------- *)
\* C12: a step takes active from true to false only as a tick that read
\* elapsed >= timeLimit, a tick that resolved a Bomb collision, or a
\* stop(), and never as two of them; it takes active from false to true
\* only as start(); gestures, render(), Apple and Grape collisions and
\* missed items never change active.
C12_ActiveTransitions ==
  [][LET timeout == ev'.op = "tick" /\ elapsedMs' >= timeLimit * 1000
         bomb    == ev'.op = "tick" /\ HasBomb(ev'.hits)
         stopped == ev'.op = "stop"
     IN  /\ (isGameActive /\ ~isGameActive') =>
               /\ timeout \/ bomb \/ stopped
               /\ ~(timeout /\ bomb)
               /\ ~(timeout /\ stopped)
               /\ ~(bomb /\ stopped)
         /\ (~isGameActive /\ isGameActive') => ev'.op = "start"
         /\ ev'.op \in {"gesture", "render", "setCallback"} =>
               isGameActive' = isGameActive
         /\ (isGameActive /\ ev'.op = "tick" /\ ~timeout /\ ~bomb) =>
               isGameActive'
    ]_vars

\* a Bomb ended the round while another item was still falling
C12_BombEndsRound ==
  /\ ActiveTick
  /\ ~isGameActive
  /\ HasBomb(ev.hits)
  /\ elapsedMs < timeLimit * 1000
  /\ Len(items) > 0

(* ---------------- C13 ---------------- *)
\* C13: update() of an inactive round (never started, or ended by the
\* time limit, a Bomb or stop()) changes none of score, level, items,
\* basketPosition, spawnTimer and isGameActive, whatever the clock would
\* show, and does not call the observer.
C13_InactiveTickNoOp ==
  [][(~isGameActive /\ ev'.op = "tick") =>
        /\ UNCHANGED <<score, level, items, basketPosition, spawnTimer,
                       isGameActive, timeLimit>>
        /\ ev'.calls = << >>
        /\ ev'.hits = << >>
    ]_vars

\* a frame of a stopped round with items on the board, an observer set and
\* the next clock value in a higher level than the stored one
C13_InactiveTickAtThreshold ==
  /\ ev.op = "tick"
  /\ ~ev.pre.active
  /\ ~isGameActive
  /\ started
  /\ onGameEnd
  /\ Len(items) > 0
  /\ LevelOf(elapsedMs + frameMs) > level

(* ---------------- C14 ---------------- *)
\* the time limit the round is said to get from a start configuration
ClaimedTimeLimit(cfg) ==
  IF cfg.kind = "number" /\ cfg.v > 0 THEN cfg.v ELSE 60

\* C14: after start(config) the time limit is positive: the supplied value
\* when that is a positive integer, and 60 when the configuration or the
\* value is missing, zero, negative or not a number.
C14_StartTimeLimitPositive ==
  [][\A cfg \in Configs :
        Start(cfg) => /\ timeLimit' > 0
                      /\ timeLimit' = ClaimedTimeLimit(cfg)
    ]_vars

(* ---------------- C15 ---------------- *)
\* C15 as stated: render() of a started round shows max(0, timeLimit -
\* elapsed) floored to whole seconds, elapsed being the fractional seconds
\* since the start (59 for a limit of 60 at 0.5 s); it is never negative.
C15_RemainingFloorOfDifference ==
  (ev.op = "render" /\ started) =>
     /\ ~ev.out.nan
     /\ ev.out.v >= 0
     /\ ev.out.v * 1000 <= Max(0, timeLimit * 1000 - elapsedMs)
     /\ Max(0, timeLimit * 1000 - elapsedMs) < (ev.out.v + 1) * 1000

\* the remaining time with the elapsed time cut to whole seconds first
ClaimedRemaining(limit, ms) ==
  IF ms \div 1000 >= limit THEN 0 ELSE limit - (ms \div 1000)

\* C15 amended: render() of a started round shows max(0, timeLimit -
\* floor(elapsed)), the elapsed seconds being floored before the
\* subtraction (60 for a limit of 60 at 0.5 s); it is never negative and
\* render() changes no field of the round.
C15_RemainingFloorOfElapsed ==
  /\ []((ev.op = "render" /\ started) =>
          /\ ~ev.out.nan
          /\ ev.out.v >= 0
          /\ ev.out.v = ClaimedRemaining(timeLimit, elapsedMs))
  /\ [][ev'.op = "render" =>
          UNCHANGED <<score, level, timeLimit, isGameActive, basketPosition,
                      items, spawnTimer, started, elapsedMs, onGameEnd>>
       ]_vars

\* render() half a second into a round of 60 s
C15_RenderAtHalfSecond ==
  /\ ev.op = "render"
  /\ isGameActive
  /\ timeLimit = 60
  /\ elapsedMs = 500
  /\ ev.out.v = 60

(* ---------------- C16 ---------------- *)
\* the spawn interval of a level as the claim lists it
ClaimedInterval(lv) == CASE lv = 1 -> 50 [] lv = 2 -> 40 [] OTHER -> 30

\* the items of its that were spawned in a tick of level lv
JustSpawned(its, lv) ==
  {i \in 1 .. Len(its) : its[i].y = Speed(lv) - 50}

\* a running tick adds one to spawnTimer and, exactly when that exceeds the
\* interval of the tick's level, appends one item and resets the timer
SpawnRule ==
  (isGameActive /\ ev'.op = "tick" /\ elapsedMs' < timeLimit * 1000) =>
     LET t  == spawnTimer + 1
         iv == ClaimedInterval(level')
     IN  IF t > iv
         THEN /\ spawnTimer' = 0
              /\ Cardinality(JustSpawned(items', level')) = 1
              /\ JustSpawned(items', level') = {Len(items')}
         ELSE /\ spawnTimer' = t
              /\ JustSpawned(items', level') = {}

\* C16 as stated: SpawnRule on every running tick, and after every tick
\* 0 <= spawnTimer <= the interval of the level of that tick.
C16_TimerBoundEveryTick ==
  /\ [][SpawnRule]_vars
  /\ [](ev.op = "tick" =>
          /\ 0 <= spawnTimer
          /\ spawnTimer <= ClaimedInterval(level))

\* C16 amended: SpawnRule on every running tick, and after every tick of an
\* active round that did not time out 0 <= spawnTimer <= the interval of
\* the level of that tick, also when the level changed in that tick.
C16_TimerBoundRunningTick ==
  /\ [][SpawnRule]_vars
  /\ [](spawnTimer >= 0)
  /\ [](RunningTick => spawnTimer <= ClaimedInterval(level))

\* the tick at 40 s of a round of 60 s: the level rises to 3 with 39 ticks
\* on the timer, and an item is spawned at once
C16_SpawnAtLevelChange ==
  /\ RunningTick
  /\ frameMs = 500
  /\ elapsedMs = 40000
  /\ level = 3
  /\ spawnTimer = 0
  /\ Len(items) = ev.pre.n + 1

(* ---------------- C17 ---------------- *)
\* the kind the claim gives to a roll (in tenths) at a level
ClaimedType(lv, roll) ==
  CASE lv \in {2, 3} /\ roll = 9 -> "bomb"
    [] lv = 1 /\ roll = 9        -> "grape"
    [] roll \in {7, 8}           -> "grape"
    [] OTHER                     -> "apple"

\* C17: a spawned item is a Bomb exactly when level >= 2 and the roll is
\* above 0.8, a Grape exactly when it is no Bomb and the roll is above 0.6,
\* an Apple otherwise; before the first tick that reads 20 s no Bomb is
\* among the items and no Bomb collision has ended the round.
C17_ItemKinds ==
  /\ [][(ev'.op = "tick" /\ spawnTimer' = 0) =>
          \A lane \in Lanes, roll \in AllRolls :
             UpdateSpawn(lane, roll) =>
                /\ Len(items') > 0
                /\ items'[Len(items')].lane = lane
                /\ items'[Len(items')].type = ClaimedType(level', roll)
       ]_vars
  /\ [](elapsedMs < 20000 =>
          /\ \A i \in 1 .. Len(items) : items[i].type # "bomb"
          /\ ~HasBomb(ev.hits)
          /\ (ev.op = "tick" /\ ev.pre.active /\ ~isGameActive) =>
                elapsedMs >= timeLimit * 1000)

\* a Bomb spawned by a tick at level 2 or 3
C17_BombSpawned ==
  /\ RunningTick
  /\ level >= 2
  /\ spawnTimer = 0
  /\ Len(items) > 0
  /\ items[Len(items)].type = "bomb"
  /\ items[Len(items)].y = Speed(level) - 50

(* ---------------- C18 ---------------- *)
\* the items whose position lies in the band from 500 to 560, ends included
InBand == {i \in 1 .. Len(items) : items[i].y >= 500 /\ items[i].y <= 560}

\* C18: at most one item is in the catch band, since items are spawned at
\* least 31 ticks apart and fall together by at least 5 a tick (155 apart,
\* the older one lower); so a tick resolves at most one collision, adds at
\* most 200 to the score and calls stop() at most once.
C18_OneItemInBand ==
  /\ Cardinality(InBand) <= 1
  /\ \A i, j \in 1 .. Len(items) : i < j => items[i].y - items[j].y >= 155
  /\ Len(ev.hits) <= 1
  /\ Len(ev.calls) <= 1
  /\ ev.op = "tick" => score - ev.pre.score \in {0, 100, 200}

\* a tick that resolved a collision while two more items were falling
C18_CollisionAmongItems ==
  /\ ActiveTick
  /\ Len(ev.hits) = 1
  /\ Len(items) >= 2

(* ---------------- C19 ---------------- *)
\* an active round with a positive limit that the clock reaches within
\* MaxTicks frames
RoundWithReachableLimit ==
  /\ isGameActive
  /\ timeLimit > 0
  /\ timeLimit * 1000 <= MaxTicks * frameMs

\* the round has ended, or start() has replaced it by a new one
RoundOver == ~isGameActive \/ ev.op = "start"

\* C19: with update() called again and again and a clock that reaches the
\* limit, a round started with a positive time limit ends (or is replaced
\* by a new start()); it ends at the latest in the first tick that reads
\* elapsed >= timeLimit, so no active round has read such a time, whatever
\* gestures, catches and misses came before.
C19_RoundEnds ==
  /\ [][(isGameActive /\ timeLimit > 0 /\ ev'.op = "tick"
          /\ elapsedMs' >= timeLimit * 1000) => ~isGameActive']_vars
  /\ []((isGameActive /\ timeLimit > 0) => elapsedMs < timeLimit * 1000)
  /\ RoundWithReachableLimit ~> RoundOver

\* a round of 60 s that timed out after a catch, the basket off centre
C19_TimedOutAfterCatch ==
  /\ ActiveTick
  /\ ~isGameActive
  /\ timeLimit = 60
  /\ elapsedMs >= 60000
  /\ score > 0
  /\ basketPosition # 1

(* ---------------- C20 ---------------- *)
\* C20: under the driver of main.js a round starts only when none is
\* active and with the callback set; the callback is called once, with the
\* final score and level, in the step that ends the round (timeout, Bomb
\* or stop button, whichever comes first) and in no other step, so exactly
\* once per ended round and never a second time.
C20_CallbackOncePerRound ==
  [][/\ (isGameActive /\ ~isGameActive') =>
          /\ ev'.calls = << <<score', level'>> >>
          /\ ev'.op \in {"tick", "stop"}
     /\ ~(isGameActive /\ ~isGameActive') => ev'.calls = << >>
     /\ ev'.op = "start" => (~isGameActive /\ isGameActive' /\ onGameEnd')
     /\ isGameActive => onGameEnd
    ]_vars

\* the stop button ended a round with items on the board and a score
C20_StoppedByButton ==
  /\ ev.op = "stop"
  /\ ev.calls = << <<score, level>> >>
  /\ ~isGameActive
  /\ Len(items) > 0
  /\ score > 0
====
